---- MODULE Spec2Model ----
(***************************************************************************)
(* Model of the website archiver (archiver.py): the archive pass           *)
(* (Archiver.archive_url with Archiver._url_resolver and _url_fetcher) and *)
(* the render pass (Archiver.render_url_to_flat_file with                  *)
(* get_template_identifiers), over an archive directory on disk.           *)
(*                                                                         *)
(* Strings are modelled by their structure.  A URL or reference string is  *)
(* a record of its parts (form, directory, file name, extension, query,    *)
(* fragment, percent-encoding); a document is a sequence of elements; a    *)
(* response body or a file is a sequence of items (bytes, url(...)         *)
(* constructs, @import rules).                                             *)
(***************************************************************************)
EXTENDS Integers, Sequences, FiniteSets, TLC

(***************************************************************************)
(* Bounds of the model.                                                    *)
(***************************************************************************)
\* longest document (number of elements) a page fetch returns
MaxElems == 2
\* deepest nesting of _url_resolver calls before the interpreter's
\* recursion limit is taken to be hit (RecursionError)
MaxDepth == 3
\* deepest nesting of get_template_identifiers calls before the recursion
\* limit is taken to be hit
RenderDepth == 4
\* longest string escape_css is called on
MaxCssLen == 2

(***************************************************************************)
(* Reference strings and URLs.                                             *)
(*   form  "abs"  absolute URL  http://host/<dir>/<name>[.<ext>]           *)
(*         "rel"  relative reference  <name>[.<ext>]                       *)
(*         "frag" bare fragment  #<frag>                                   *)
(*         "data" data: URI with payload <name>                            *)
(*   query, frag   "" when the string has none                             *)
(*   pct   TRUE when a character of the path is written percent-encoded    *)
(*   tail  "" or t: the path is followed by the encoded text %23<t>        *)
(***************************************************************************)
MkRef(form, dir, name, ext, query, frag, pct, tail) ==
    [form |-> form, dir |-> dir, name |-> name, ext |-> ext,
     query |-> query, frag |-> frag, pct |-> pct, tail |-> tail]

Abs(dir, name, ext) == MkRef("abs", dir, name, ext, "", "", FALSE, "")
Rel(name, ext)      == MkRef("rel", "", name, ext, "", "", FALSE, "")
BareFragment(frag)  == MkRef("frag", "", "", "", "", frag, FALSE, "")
DataUri(payload)    == MkRef("data", "", payload, "", "", "", FALSE, "")

\* the module-level name `url` read by _url_resolver is bound to a URL or
\* is not bound at all
Unbound == [form |-> "unbound"]

\* str.lower() on a path suffix
Lower(ext) ==
    CASE ext = "PNG" -> "png"
      [] ext = "CSS" -> "css"
      [] OTHER -> ext

\* url_parse.urljoin(root_url, url): a reference is resolved against the
\* directory of the base; a bare fragment keeps the whole base and replaces
\* its fragment; absolute URLs and data: URIs are kept as they are
urljoin(root_url, ref) ==
    CASE ref.form = "abs"  -> ref
      [] ref.form = "data" -> ref
      [] ref.form = "rel"  -> [ref EXCEPT !.form = "abs", !.dir = root_url.dir]
      [] ref.form = "frag" -> [root_url EXCEPT !.frag = ref.frag]

\* a normalisation that drops the fragment but keeps the query string
normalize_url_keeping_query(root_url, ref) ==
    LET joined   == urljoin(root_url, ref)
        stripped == [joined EXCEPT !.frag = ""]
    IN  [stripped EXCEPT !.pct = FALSE, !.frag = stripped.tail, !.tail = ""]

\* normalize_url: join, drop query and fragment, then percent-decode.  The
\* decoding turns an encoded %23<t> after the path into a literal #<t>.
normalize_url(root_url, ref) ==
    LET joined   == urljoin(root_url, ref)
        stripped == [joined EXCEPT !.query = "", !.frag = ""]
    IN  [stripped EXCEPT !.pct = FALSE, !.frag = stripped.tail, !.tail = ""]

\* generate_url_hash: '_' followed by the SHA-1 hex digest of the URL
\* string; the digest is modelled as an injective function of the string
Sha1(u) == [sha1 |-> u]
generate_url_hash(u) == <<"", Sha1(u)>>

\* set of recognised asset suffixes (without the dot)
asset_url_file_formats ==
    {"bmp", "css", "doc", "docx", "eot", "gif", "ico", "jpeg", "jpg",
     "mp3", "mp4", "odt", "ogg", "otf", "pdf", "png", "rtf", "svg", "tif",
     "tiff", "ttf", "txt", "wav", "webm", "webp", "woff", "woff2", "xls",
     "xlsb", "xlsx", "xml"}

\* a path in the assets folder: the stem is the list of '_'-separated
\* chunks of the file name, the suffix is the extension without its dot
\* ("" when the file has none)
MkFile(stem, suffix) == [stem |-> stem, suffix |-> suffix]

\* Archiver.url_to_file: assets/<hash><lower-cased suffix of the URL path>.
\* After percent-decoding, urlsplit takes a literal '#' as the start of the
\* fragment, so the path and its suffix are those in front of it.
url_to_file(u) == MkFile(generate_url_hash(u), Lower(u.ext))

\* f'{asset_file.stem}_{asset_file.suffix[1:]}' as its '_'-separated chunks
template_identifier(asset_file) == Append(asset_file.stem, asset_file.suffix)

\* f'$$${{{template_identifier}}}'
Placeholder(tid) == [form |-> "placeholder", token |-> tid]

\* no text: an attribute that is absent, the value of a call that raised
NoText == [form |-> "none"]

(***************************************************************************)
(* Contents.  A response body or a file is a sequence of items:            *)
(*   [k |-> "byte", v |-> b]     one byte (or byte group) b                *)
(*   [k |-> "url", v |-> t]      a CSS url(t); t a reference string, a     *)
(*                               placeholder or a data: URI                *)
(*   [k |-> "import", v |-> r]   a CSS @import of the reference r          *)
(***************************************************************************)
Byte(b)     == [k |-> "byte", v |-> b]
CssUrl(t)   == [k |-> "url", v |-> t]
CssImport(r) == [k |-> "import", v |-> r]

\* bytes.decode(encoding, errors='replace') as done by response.text: a byte
\* that is not valid in the encoding becomes U+FFFD
DecodeByte(b) ==
    CASE b = "x41" -> "A"
      [] b = "x80" -> "U+FFFD"
      [] b = "xEFxBFxBD" -> "U+FFFD"
      [] OTHER -> "U+FFFD"

\* str.encode(encoding) as done by Path.write_text
EncodeChar(c) ==
    CASE c = "A" -> "x41"
      [] c = "U+FFFD" -> "xEFxBFxBD"
      [] OTHER -> "x3F"

\* content_type.startswith('text'), over the media types of the model
startswith_text(content_type) ==
    content_type \in {"text/plain", "text/html", "text/css", "text/xml"}

\* asset_file.suffix == '.css': the archive pass's test for a stylesheet
is_css_file(asset_file) == asset_file.suffix = "css"

\* content_type == 'text/css': the render pass's test for a stylesheet
is_css_type(content_type) == content_type = "text/css"

\* the bytes that write_text(response.text) puts on disk for a body
TextRoundTrip(body) ==
    [i \in 1..Len(body) |->
        IF body[i].k = "byte" THEN Byte(EncodeChar(DecodeByte(body[i].v)))
        ELSE body[i]]

(***************************************************************************)
(* The remote side: what a GET of a URL may answer.  A response has a      *)
(* status ("ok", "http_error" for a 4xx/5xx answer, "network_error" when   *)
(* the request raises), the media type of its content-type header and a    *)
(* body.  Every fetch picks its answer anew.                               *)
(***************************************************************************)
Response(status, ctype, body) == [status |-> status, content_type |-> ctype, body |-> body]

BinBody == <<Byte("x80")>>
TxtBody == <<Byte("x41")>>

Responses(u) ==
    CASE u.name = "a" ->
            {Response("ok", "image/png", BinBody),
             Response("ok", "text/plain", BinBody),
             Response("network_error", "", <<>>)}
      [] u.name = "s" ->
            {Response("ok", "text/css", <<CssUrl(Rel("a", "png"))>>),
             Response("ok", "text/css", <<CssUrl(Rel("s", "css"))>>),
             Response("ok", "text/plain", <<CssUrl(Rel("a", "png"))>>),
             Response("http_error", "text/html", TxtBody)}
      [] u.name = "t" ->
            {Response("ok", "text/css", <<CssUrl(Rel("s", "css"))>>)}
      [] OTHER ->
            {Response("ok", "text/css", TxtBody)}

(***************************************************************************)
(* Calls.  A call of the archiver yields a set of possible results (one    *)
(* per way the fetches it makes can be answered); a result is the state    *)
(* the call leaves, the value it returns and the exception it raises.      *)
(* The state threaded through a pass is the assets folder, the in-memory   *)
(* asset_urls_metadata and the events of the pass so far; with them goes   *)
(* doc, the URL of the document whose references are being resolved (the   *)
(* page, or the stylesheet a url() stands in), which the code keeps        *)
(* nowhere and which is recorded with each resolver return.                *)
(***************************************************************************)
Returned(st, v) == [st |-> st, ret |-> v, exc |-> ""]
Raised(st, v, e) == [st |-> st, ret |-> v, exc |-> e]

Log(st, event) == [st EXCEPT !.trace = Append(@, event)]

Extend(f, key, val) == [x \in DOMAIN f \cup {key} |-> IF x = key THEN val ELSE f[x]]

\* Archiver._url_fetcher: one GET; a network failure raises, any answer
\* that arrives (whatever its status) is returned.  return_bytes is TRUE in
\* the resolver's call and FALSE in the parser's (an @import) and the page's.
url_fetcher(u, return_bytes, st) ==
    { LET st1 == Log(st, [ev |-> "fetch", url |-> u, status |-> r.status,
                          return_bytes |-> return_bytes,
                          content_type |-> r.content_type])
      IN  IF r.status = "network_error"
          THEN Raised(st1, r, "ConnectError")
          ELSE Returned(st1, r)
      : r \in Responses(u) }

\* an entry that holds the content type and no source URL
metadata_entry_without_url(content_type, asset_url) ==
    [content_type |-> content_type, url |-> NoText]

\* the entry of asset_urls_metadata recorded for a fetched asset
metadata_entry(content_type, asset_url) ==
    [content_type |-> content_type, url |-> asset_url]

\* resolveImports' replacer: a relative url() of an imported sheet is
\* re-based on the href of the @import rule (query and fragment dropped)
RebaseUrl(ref, import_href) ==
    IF ref.form # "rel" THEN ref
    ELSE IF import_href.form = "abs"
         THEN [ref EXCEPT !.form = "abs", !.dir = import_href.dir,
                          !.query = "", !.frag = ""]
         ELSE [ref EXCEPT !.query = "", !.frag = ""]

(***************************************************************************)
(* State.                                                                  *)
(*   url            the module-level name `url` that _url_resolver reads   *)
(*   assets         the assets folder: path -> content of the file         *)
(*   metadata_file  metadata.json: whether it exists, and token -> entry   *)
(*   raw, template  <id>.raw.html and <id>.template.html, by identifier    *)
(*   output         the file a render was asked to write                   *)
(*   op, outcome    the last operation and the exception it raised ("")    *)
(*   trace          the fetches, writes and resolver returns of the last   *)
(*                  operation, in order                                    *)
(*   fetched        for each asset file, the response its content was made *)
(*                  from (kept to state what was originally fetched)       *)
(***************************************************************************)
VARIABLES url, assets, metadata_file, raw, template, output, op, outcome, trace,
          fetched

vars == <<url, assets, metadata_file, raw, template, output, op, outcome, trace,
          fetched>>

EmptyMap == <<>>

\* a file outside the assets folder: whether it exists, and its content
NoFile == [exists |-> FALSE, content |-> <<>>]
FileOf(content) == [exists |-> TRUE, content |-> content]

\* a write that is recorded but leaves no file
write_asset_lost(st, asset_file, content, r) ==
    Log(st, [ev |-> "write_asset", file |-> asset_file])

\* Path.write_text / write_bytes on an asset file, of a content made from
\* the response r
write_asset(st, asset_file, content, r) ==
    [Log(st, [ev |-> "write_asset", file |-> asset_file])
        EXCEPT !.assets = Extend(@, asset_file, content),
               !.fetched = Extend(@, asset_file, r)]

\* the serialisation of a sheet whose url() values are the given texts
cssText(texts) == [i \in 1..Len(texts) |-> CssUrl(texts[i])]

\* the url() values of a sheet or declaration block, in order
RECURSIVE UrlsOf(_)
UrlsOf(items) ==
    IF items = <<>> THEN <<>>
    ELSE (IF Head(items).k = "url" THEN <<Head(items).v>> ELSE <<>>)
         \o UrlsOf(Tail(items))

\* css_parser.parseString(text, href=href) followed by resolveImports:
\* every @import is fetched through _url_fetcher (the parser's fetcher) from
\* its href joined to the sheet's href, and the imported rules take its
\* place.
\* The value is the list of url() references of the flattened sheet.
RECURSIVE flat_stylesheet(_, _, _, _)
flat_stylesheet(body, href, st, fuel) ==
    IF body = <<>> THEN {Returned(st, <<>>)}
    ELSE LET item == Head(body) IN
      IF item.k # "import"
      THEN { IF t.exc # "" THEN t
             ELSE Returned(t.st, (IF item.k = "url" THEN <<item.v>> ELSE <<>>) \o t.ret)
             : t \in flat_stylesheet(Tail(body), href, st, fuel) }
      ELSE IF fuel = 0 THEN {Raised(st, <<>>, "RecursionError")}
      ELSE UNION {
             IF f.exc # "" THEN {Raised(f.st, <<>>, f.exc)}
             ELSE UNION {
                    IF i.exc # "" THEN {i}
                    ELSE { IF t.exc # "" THEN t
                           ELSE Returned(t.st,
                                    [k \in 1..Len(i.ret) |-> RebaseUrl(i.ret[k], item.v)]
                                    \o t.ret)
                           : t \in flat_stylesheet(Tail(body), href, i.st, fuel) }
                    : i \in flat_stylesheet(f.ret.body, urljoin(href, item.v), f.st, fuel - 1) }
             : f \in url_fetcher(urljoin(href, item.v), FALSE, st) }

\* Archiver._url_resolver(asset_url, asset_urls_metadata), with
\* replace_all the replaceUrls pass that calls it on each url() in turn
RECURSIVE url_resolver(_, _, _), replace_all(_, _, _)
url_resolver(ref, st, fuel) ==
    IF fuel = 0 THEN {Raised(st, NoText, "RecursionError")}
    ELSE IF url = Unbound THEN {Raised(st, NoText, "NameError")}
    ELSE
    LET asset_url  == normalize_url(url, ref)
        asset_file == url_to_file(asset_url)
        tid        == template_identifier(asset_file)
        Done(s, text) ==
            Returned(Log(s, [ev |-> "resolved", ref |-> ref, ret |-> text,
                             doc |-> s.doc]), text)
    IN
    IF asset_file.suffix \notin asset_url_file_formats
    THEN IF asset_url.form = "data" THEN {Done(st, asset_url)}
         ELSE IF asset_url.frag = "" THEN {Done(st, asset_url)}
         ELSE {Done(st, BareFragment(asset_url.frag))}
    ELSE IF asset_file \in DOMAIN st.assets THEN {Done(st, Placeholder(tid))}
    ELSE UNION {
      IF f.exc # "" THEN {Raised(f.st, NoText, f.exc)}
      ELSE
      LET r   == f.ret
          st1 == [f.st EXCEPT !.meta = Extend(@, tid,
                     metadata_entry(r.content_type, asset_url))]
      IN
      IF is_css_file(asset_file)
      THEN UNION {
             IF p.exc # "" THEN {Raised(p.st, NoText, p.exc)}
             ELSE { IF q.exc # "" THEN Raised(q.st, NoText, q.exc)
                    ELSE Done([write_asset(q.st, asset_file, cssText(q.ret), r)
                                  EXCEPT !.doc = st.doc],
                              Placeholder(tid))
                    : q \in replace_all(p.ret, [p.st EXCEPT !.doc = asset_url],
                                        fuel - 1) }
             : p \in flat_stylesheet(r.body, url, st1, fuel) }
      ELSE IF startswith_text(r.content_type)
           THEN {Done(write_asset(st1, asset_file, TextRoundTrip(r.body), r),
                      Placeholder(tid))}
           ELSE {Done(write_asset(st1, asset_file, r.body, r), Placeholder(tid))}
      : f \in url_fetcher(asset_url, TRUE, st) }

replace_all(refs, st, fuel) ==
    IF refs = <<>> THEN {Returned(st, <<>>)}
    ELSE UNION {
      IF h.exc # "" THEN {Raised(h.st, <<>>, h.exc)}
      ELSE { IF t.exc # "" THEN t
             ELSE Returned(t.st, <<h.ret>> \o t.ret)
             : t \in replace_all(Tail(refs), h.st, fuel) }
      : h \in url_resolver(Head(refs), st, fuel) }

(***************************************************************************)
(* Documents.  An HTML document is a sequence of elements                  *)
(*   tag    the tag name                                                   *)
(*   attr   the value of the asset attribute (src, data, href,             *)
(*          xlink:href), NoText when the element has none                  *)
(*   style  the declarations of the inline style attribute                 *)
(*   text   the content of a <style> element                               *)
(*   aux    the value of the data-template-id attribute                    *)
(***************************************************************************)
Elem(tag, attr, style, text) ==
    [tag |-> tag, attr |-> attr, style |-> style, text |-> text, aux |-> NoText]

\* the tags lookup_css_query selects
AssetTags ==
    {"image", "use", "source", "track", "audio", "video", "embed", "iframe",
     "img", "object", "link"}

\* template_id[4:-1]: the token of a placeholder, a mangled slice of
\* anything else
Slice4(text) ==
    IF text.form = "placeholder"
    THEN [form |-> "token", token |-> text.token]
    ELSE [form |-> "sliced", of |-> text]

\* the three loops of archive_url over the parsed document: phase 1 the
\* elements with a style attribute, phase 2 the asset tags, phase 3 the
\* <style> elements
RECURSIVE walk(_, _, _, _, _)
walk(page, phase, i, doc, st) ==
    IF i > Len(doc)
    THEN IF phase = 3 THEN {Returned(st, doc)} ELSE walk(page, phase + 1, 1, doc, st)
    ELSE
    LET e == doc[i] IN
    CASE phase = 1 /\ e.style # <<>> ->
           UNION { IF q.exc # "" THEN {Raised(q.st, doc, q.exc)}
                   ELSE walk(page, 1, i + 1, [doc EXCEPT ![i].style = cssText(q.ret)], q.st)
                   : q \in replace_all(UrlsOf(e.style), st, MaxDepth) }
      [] phase = 2 /\ e.tag \in AssetTags /\ e.attr # NoText ->
           UNION { IF q.exc # "" THEN {Raised(q.st, doc, q.exc)}
                   ELSE walk(page, 2, i + 1,
                             IF e.tag = "link"
                             THEN [doc EXCEPT ![i].aux = Slice4(q.ret)]
                             ELSE [doc EXCEPT ![i].attr = q.ret],
                             q.st)
                   : q \in url_resolver(e.attr, st, MaxDepth) }
      [] phase = 3 /\ e.tag = "style" ->
           UNION { IF p.exc # "" THEN {Raised(p.st, doc, p.exc)}
                   ELSE UNION {
                          IF q.exc # "" THEN {Raised(q.st, doc, q.exc)}
                          ELSE walk(page, 3, i + 1, [doc EXCEPT ![i].text = cssText(q.ret)], q.st)
                          : q \in replace_all(p.ret, p.st, MaxDepth) }
                   : p \in flat_stylesheet(e.text, page, st, MaxDepth) }
      [] OTHER -> walk(page, phase, i + 1, doc, st)

\* script_tag.decompose() for every script element
RemoveScripts(doc) == SelectSeq(doc, LAMBDA e : e.tag # "script")

(***************************************************************************)
(* The pages that are archived and what their servers may answer.          *)
(***************************************************************************)
Index == Abs("d0", "index", "html")
Feed  == Abs("d1", "feed", "xml")
Pages == {Index, Feed}

\* the elements the document served for a page is made of
Elements(p) ==
    IF p = Index
    THEN {Elem("img", Rel("a", "png"), <<>>, <<>>),
          Elem("link", Rel("s", "css"), <<>>, <<>>),
          Elem("style", NoText, <<>>, <<CssImport(Rel("t", "css"))>>),
          Elem("script", NoText, <<>>, <<>>)}
    ELSE {Elem("div", NoText,
               <<CssUrl(MkRef("abs", "d0", "a", "png", "v=1", "", FALSE, ""))>>, <<>>),
          Elem("iframe", MkRef("rel", "", "view", "", "id=3", "top", FALSE, ""),
               <<CssUrl(MkRef("data", "", "svg", "", "", "", TRUE, ""))>>, <<>>),
          Elem("use", BareFragment("icon"), <<>>, <<>>),
          Elem("link", Abs("d0", "s", "css"), <<>>, <<>>)}

Docs(p) == UNION { [1..n -> Elements(p)] : n \in 1..MaxElems }

(***************************************************************************)
(* Archiver.archive_url(p)                                                 *)
(***************************************************************************)
archive_url(p) ==
    /\ op' = [name |-> "archive_url", url |-> p]
    /\ \E r \in {"network_error", "ok"} :
         LET t0 == <<[ev |-> "fetch", url |-> p, status |-> r,
                      return_bytes |-> FALSE,
                      content_type |-> IF r = "ok" THEN "text/html" ELSE ""]>> IN
         IF r = "network_error"
         THEN /\ outcome' = "ConnectError"
              /\ trace' = t0
              /\ UNCHANGED <<url, assets, metadata_file, raw, template, output, fetched>>
         ELSE \E html \in Docs(p) :
              \E w \in walk(p, 1, 1, html,
                            [assets |-> assets, meta |-> EmptyMap, fetched |-> fetched,
                             doc |-> p,
                             trace |-> Append(t0, [ev |-> "write_raw", url |-> p])]) :
                /\ raw' = Extend(raw, generate_url_hash(p), html)
                /\ assets' = w.st.assets
                /\ fetched' = w.st.fetched
                /\ outcome' = w.exc
                /\ IF w.exc # ""
                   THEN /\ trace' = w.st.trace
                        /\ UNCHANGED <<metadata_file, template>>
                   ELSE /\ metadata_file' = FileOf(w.st.meta)
                        /\ template' = Extend(template, generate_url_hash(p),
                                              RemoveScripts(w.ret))
                        /\ trace' = w.st.trace \o <<[ev |-> "write_metadata"],
                                                   [ev |-> "write_template", url |-> p]>>
                /\ UNCHANGED <<url, output>>

(***************************************************************************)
(* The render pass.                                                        *)
(***************************************************************************)
\* Archiver.template_id_to_file: split the token at '_', the last chunk is
\* the suffix, the others joined again are the stem
template_id_to_file(template_id) ==
    MkFile(SubSeq(template_id, 1, Len(template_id) - 1),
           template_id[Len(template_id)])

\* Path.with_suffix('.') raises ValueError: a token whose last chunk is
\* empty has no file
InvalidSuffix(template_id) == template_id[Len(template_id)] = ""

\* string.Template.get_identifiers over a sequence of items: the tokens of
\* the $$${...} placeholders, in order of first appearance
RECURSIVE ItemIdentifiers(_, _)
ItemIdentifiers(items, seen) ==
    IF items = <<>> THEN seen
    ELSE LET it == Head(items)
             isNew == /\ it.k = "url"
                      /\ it.v.form = "placeholder"
                      /\ \A j \in 1..Len(seen) : seen[j] # it.v.token
         IN ItemIdentifiers(Tail(items), IF isNew THEN Append(seen, it.v.token) ELSE seen)

\* the items of an HTML document in which a placeholder can stand: the
\* asset attribute, the style attribute and the <style> text of each
\* element
RECURSIVE DocItems(_)
DocItems(doc) ==
    IF doc = <<>> THEN <<>>
    ELSE LET e == Head(doc) IN
         (IF e.attr # NoText THEN <<CssUrl(e.attr)>> ELSE <<>>)
         \o e.style \o e.text \o DocItems(Tail(doc))

\* string.Template.substitute over a sequence of items
SubstituteText(t, template_vars) ==
    IF t.form = "placeholder" THEN template_vars[t.token] ELSE t

SubstituteItems(items, template_vars) ==
    [i \in 1..Len(items) |->
        IF items[i].k = "url"
        THEN CssUrl(SubstituteText(items[i].v, template_vars))
        ELSE items[i]]

SubstituteDoc(doc, template_vars) ==
    [i \in 1..Len(doc) |->
        [doc[i] EXCEPT !.attr  = IF @ = NoText THEN @ ELSE SubstituteText(@, template_vars),
                       !.style = SubstituteItems(@, template_vars),
                       !.text  = SubstituteItems(@, template_vars)]]

\* url_parse.quote and base64.b64encode: injective encodings of a content
quote(css_str) == [quoted |-> css_str]
b64encode(content) == [b64 |-> content]
b64decode(payload) == payload.b64

\* Archiver.get_template_identifiers over the identifiers ids of a
\* template: the mapping token -> data: URI, or the exception raised.
\* depth is the number of nested calls the interpreter still allows.
RECURSIVE get_template_identifiers(_, _, _, _)
get_template_identifiers(ids, metadata, files, depth) ==
    IF ids = <<>> THEN [ret |-> EmptyMap, exc |-> ""]
    ELSE
    LET template_id == Head(ids) IN
    IF template_id \notin DOMAIN metadata THEN [ret |-> EmptyMap, exc |-> "KeyError"]
    ELSE
    LET content_type == metadata[template_id].content_type
        file == template_id_to_file(template_id)
    IN
    IF InvalidSuffix(template_id) THEN [ret |-> EmptyMap, exc |-> "ValueError"]
    ELSE IF file \notin DOMAIN files THEN [ret |-> EmptyMap, exc |-> "FileNotFoundError"]
    ELSE
    LET content == files[file]
        nested == IF is_css_type(content_type)
                  THEN IF depth = 0
                       THEN [ret |-> EmptyMap, exc |-> "RecursionError"]
                       ELSE get_template_identifiers(ItemIdentifiers(content, <<>>),
                                                     metadata, files, depth - 1)
                  ELSE [ret |-> EmptyMap, exc |-> ""]
    IN
    IF nested.exc # "" THEN nested
    ELSE
    LET data_url ==
            IF is_css_type(content_type)
            THEN [form |-> "data_css",
                  css |-> quote(SubstituteItems(content, nested.ret))]
            ELSE [form |-> "data_base64", content_type |-> content_type,
                  payload |-> b64encode(content)]
        rest == get_template_identifiers(Tail(ids), metadata, files, depth)
    IN
    IF rest.exc # "" THEN rest
    ELSE [ret |-> Extend(rest.ret, template_id, data_url), exc |-> ""]

\* a render that writes its result over the template document it read
render_url_over_template(p) ==
    /\ op' = [name |-> "render_url_to_flat_file", url |-> p]
    /\ outcome' = ""
    /\ trace' = <<[ev |-> "write_output", url |-> p]>>
    /\ template' = Extend(template, generate_url_hash(p), <<>>)
    /\ UNCHANGED <<url, assets, metadata_file, raw, output, fetched>>

\* Archiver.render_url_to_flat_file(p, save_file)
render_url_to_flat_file(p) ==
    LET template_file == generate_url_hash(p)
        result ==
            IF ~metadata_file.exists \/ template_file \notin DOMAIN template
            THEN [ret |-> EmptyMap, exc |-> "FileNotFoundError"]
            ELSE get_template_identifiers(
                    ItemIdentifiers(DocItems(template[template_file]), <<>>),
                    metadata_file.content, assets, RenderDepth)
    IN
    /\ op' = [name |-> "render_url_to_flat_file", url |-> p]
    /\ outcome' = result.exc
    /\ IF result.exc # ""
       THEN /\ trace' = <<>>
            /\ UNCHANGED output
       ELSE /\ output' = FileOf(SubstituteDoc(template[template_file], result.ret))
            /\ trace' = <<[ev |-> "write_output", url |-> p]>>
    /\ UNCHANGED <<url, assets, metadata_file, raw, template, fetched>>

Init ==
    /\ url \in Pages \cup {Unbound}
    /\ assets = EmptyMap
    /\ metadata_file = NoFile
    /\ raw = EmptyMap
    /\ template = EmptyMap
    /\ output = NoFile
    /\ op = [name |-> "init", url |-> Unbound]
    /\ outcome = ""
    /\ trace = <<>>
    /\ fetched = EmptyMap

\* The archive passes: each page is archived once, into the same archive
\* directory.  The renders follow the passes: a render changes nothing but
\* its output file, which no pass reads.
Archive ==
    \E p \in Pages :
        /\ op.name # "render_url_to_flat_file"
        /\ generate_url_hash(p) \notin DOMAIN raw
        /\ archive_url(p)

Render == \E p \in Pages : render_url_to_flat_file(p)

Next == Archive \/ Render

Spec == Init /\ [][Next]_vars

(***************************************************************************)
(* The functions of the module called on their own: the identifier codec   *)
(* (url_to_file, the token of line 195, template_id_to_file).  A call      *)
(* leaves its argument and its value in trace and the exception it raised  *)
(* in outcome; the archive directory is not touched.                       *)
(***************************************************************************)
\* the canonical URLs the codec is called on
CodecUrls ==
    { Abs(d, n, x) : d \in {"d0", "d1"}, n \in {"a", "s", "view"},
                     x \in {"", "png", "PNG", "css", "html", "xml"} }

\* url_to_file(u), the token built from it, and template_id_to_file of the
\* token
call_codec(u) ==
    LET file  == url_to_file(u)
        token == template_identifier(file)
        back  == IF InvalidSuffix(token) THEN NoText ELSE template_id_to_file(token)
    IN
    /\ op' = [name |-> "template_id_to_file", url |-> u]
    /\ outcome' = IF InvalidSuffix(token) THEN "ValueError" ELSE ""
    /\ trace' = <<[ev |-> "codec", url |-> u, file |-> file, token |-> token,
                   ret |-> back]>>
    /\ UNCHANGED <<url, assets, metadata_file, raw, template, output, fetched>>

\* a function is called once, on a directory in which nothing has happened
Codec == \E u \in CodecUrls : op.name = "init" /\ call_codec(u)

\* the reference strings a token is derived from: relative and absolute
\* forms, with and without query string, fragment, percent-encoding and an
\* encoded %23 tail; and bare fragments
TokenRefs ==
    { MkRef(f[1], f[2], "a", x, q, g, c, t) :
        f \in {<<"rel", "">>, <<"abs", "d0">>, <<"abs", "d1">>},
        x \in {"png", "css"}, q \in {"", "v=1"}, g \in {"", "top"},
        c \in BOOLEAN, t \in {"", "x"} }
    \cup {BareFragment("icon"), BareFragment("top")}

\* the token derivation of _url_resolver (lines 181, 182 and 195) for one
\* reference against a base
token_for(base, ref) ==
    LET asset_url  == normalize_url(base, ref)
        asset_file == url_to_file(asset_url)
    IN  [ev |-> "token", base |-> base, ref |-> ref, url |-> asset_url,
         file |-> asset_file, token |-> template_identifier(asset_file)]

\* the derivation for two references against the same base
call_token(base, ref1, ref2) ==
    /\ op' = [name |-> "token_for", url |-> base]
    /\ outcome' = ""
    /\ trace' = <<token_for(base, ref1), token_for(base, ref2)>>
    /\ UNCHANGED <<url, assets, metadata_file, raw, template, output, fetched>>

Token ==
    \E base \in Pages : \E ref1, ref2 \in TokenRefs :
        op.name = "init" /\ call_token(base, ref1, ref2)

(***************************************************************************)
(* utils.escape_css.  A string is a sequence of code units (numbers); the  *)
(* result is a sequence of pieces:                                         *)
(*   [k |-> "fffd"]              the replacement character U+FFFD          *)
(*   [k |-> "hex", code |-> c]   backslash, c in hexadecimal, a space      *)
(*   [k |-> "raw", code |-> c]   the character itself                      *)
(*   [k |-> "bs",  code |-> c]   backslash and the character               *)
(***************************************************************************)
\* NUL, a control, '!', '-', '0', 'a', DEL and the first non-ASCII unit
CodeUnits == {0, 1, 33, 45, 48, 97, 127, 128}

CssStrings == UNION { [1..n -> CodeUnits] : n \in 0..MaxCssLen }

\* 0x0030 <= code_unit <= 0x0039
IsDigit(c) == 48 <= c /\ c <= 57

\* 0x0001 <= code_unit <= 0x001F or code_unit == 0x007F
IsControl(c) == (1 <= c /\ c <= 31) \/ c = 127

\* the condition of the second elif: the character is kept
IsKept(c) ==
    \/ c >= 128
    \/ c = 45
    \/ c = 95
    \/ IsDigit(c)
    \/ (65 <= c /\ c <= 90)
    \/ (97 <= c /\ c <= 122)

\* the piece for the code unit at position i of css (i counts from 1, the
\* code's index is i - 1).  In the code's condition `and` binds tighter than
\* `or`: (digit and index 0) or (index 1 and css starts with '-').
EscapeUnit(css, i) ==
    LET code_unit == css[i] IN
    IF code_unit = 0 THEN [k |-> "fffd"]
    ELSE IF \/ IsControl(code_unit)
            \/ (IsDigit(code_unit) /\ i - 1 = 0)
            \/ (i - 1 = 1 /\ css[1] = 45)
         THEN [k |-> "hex", code |-> code_unit]
    ELSE IF IsKept(code_unit) THEN [k |-> "raw", code |-> code_unit]
    ELSE [k |-> "bs", code |-> code_unit]

escape_css(css) ==
    IF css = <<45>> THEN <<[k |-> "bs", code |-> 45]>>
    ELSE [i \in 1..Len(css) |-> EscapeUnit(css, i)]

call_escape_css(css) ==
    /\ op' = [name |-> "escape_css", url |-> Unbound]
    /\ outcome' = ""
    /\ trace' = <<[ev |-> "escape_css", css |-> css, ret |-> escape_css(css)]>>
    /\ UNCHANGED <<url, assets, metadata_file, raw, template, output, fetched>>

Escape == \E css \in CssStrings : op.name = "init" /\ call_escape_css(css)

NextFunctions == Codec \/ Token \/ Escape

SpecFunctions == Init /\ [][NextFunctions]_vars

(***************************************************************************)
(* Vocabulary of the properties.                                           *)
(***************************************************************************)
ArchiveActed == op.name = "archive_url"
RenderActed  == op.name = "render_url_to_flat_file"
RenderSucceeded == RenderActed /\ outcome = ""

\* every pass that wrote its raw snapshot also wrote its template document
AllPassesCompleted == DOMAIN raw = DOMAIN template

\* the tokens of the placeholders among a sequence of items
TokensIn(items) ==
    { items[i].v.token :
        i \in { j \in 1..Len(items) :
                  items[j].k = "url" /\ items[j].v.form = "placeholder" } }

\* the tokens reachable from the set T through the asset files on disk
RECURSIVE TokenClosure(_)
TokenClosure(T) ==
    LET more == UNION { TokensIn(assets[template_id_to_file(t)]) :
                          t \in { x \in T : /\ ~InvalidSuffix(x)
                                            /\ template_id_to_file(x) \in DOMAIN assets } }
    IN  IF more \subseteq T THEN T ELSE TokenClosure(T \cup more)

\* the tokens a template document depends on, directly or through files
TemplateTokens(id) == TokenClosure(TokensIn(DocItems(template[id])))

(***************************************************************************)
(* C1.  Several URLs archived into one directory share one ledger: after   *)
(* any sequence of completed passes, every placeholder token of every      *)
(* template document, and of every asset file reachable from it, has an    *)
(* entry in metadata.json.                                                 *)
(***************************************************************************)
C1_SharedLedgerCoversEveryToken ==
    (AllPassesCompleted /\ metadata_file.exists) =>
        \A id \in DOMAIN template :
            TemplateTokens(id) \subseteq DOMAIN metadata_file.content

(***************************************************************************)
(* C2.  Within one archive pass every distinct canonical asset URL is      *)
(* fetched at most once and its asset file is written at most once.  (The  *)
(* first event of a pass is the fetch of the page itself.)                 *)
(***************************************************************************)
Canonical(u) == normalize_url(u, u)

AssetFetchesOf(c) ==
    { i \in 2..Len(trace) : trace[i].ev = "fetch" /\ Canonical(trace[i].url) = c }

WritesOf(f) ==
    { i \in 1..Len(trace) : trace[i].ev = "write_asset" /\ trace[i].file = f }

C2_EveryAssetFetchedAndWrittenOnce ==
    ArchiveActed =>
        \A i \in 2..Len(trace) :
            /\ trace[i].ev = "fetch" =>
                  Cardinality(AssetFetchesOf(Canonical(trace[i].url))) = 1
            /\ trace[i].ev = "write_asset" =>
                  Cardinality(WritesOf(trace[i].file)) = 1

(***************************************************************************)
(* C3.  After archive_url and a successful render, every reference the     *)
(* walk resolved to an asset (a placeholder in the template, or, for a     *)
(* stylesheet <link>, a token in the auxiliary attribute) is a data: URI   *)
(* in the output, and no placeholder and no live URL of it remains.        *)
(***************************************************************************)
IsDataUri(t) == t.form \in {"data_css", "data_base64"}

C3_FlattenedHasNoExternalAssetReference ==
    RenderSucceeded =>
        LET tpl == template[generate_url_hash(op.url)] IN
        /\ \A i \in 1..Len(tpl) :
             (tpl[i].aux.form = "token" \/ tpl[i].attr.form = "placeholder")
                => IsDataUri(output.content[i].attr)
        /\ TokensIn(DocItems(output.content)) = {}

(***************************************************************************)
(* C4.  A bare-fragment reference #id given to the resolver yields the     *)
(* text #id and is never treated as an asset.                              *)
(***************************************************************************)
C4_BareFragmentIsKept ==
    \A i \in 1..Len(trace) :
        (trace[i].ev = "resolved" /\ trace[i].ref.form = "frag")
            => trace[i].ret = trace[i].ref

(***************************************************************************)
(* C5.  Rendering terminates in every state reachable by archive passes:   *)
(* the placeholder dependency graph among the asset files on disk is       *)
(* acyclic (no asset file contains its own token or the token of a file    *)
(* that transitively contains it), so no render exhausts the call stack.   *)
(***************************************************************************)
C5_PlaceholderGraphIsAcyclic ==
    /\ \A f \in DOMAIN assets :
          template_identifier(f) \notin TokenClosure(TokensIn(assets[f]))
    /\ RenderActed => outcome # "RecursionError"

(***************************************************************************)
(* C6.  The archive pass and the render pass agree on which assets are CSS *)
(* templates: an asset is rewritten with placeholders at archive time (its *)
(* file is a stylesheet file) exactly when its recorded content type is    *)
(* CSS, which is when the renderer treats the file as a nested template.   *)
(***************************************************************************)
C6_ArchiveAndRenderAgreeOnCss ==
    metadata_file.exists =>
        \A t \in DOMAIN metadata_file.content :
            is_css_file(template_id_to_file(t))
                <=> is_css_type(metadata_file.content[t].content_type)

(***************************************************************************)
(* C7.  A fetch failure during an archive pass (network error or HTTP      *)
(* error status) is surfaced and aborts the pass: no asset file is written *)
(* from the failed response, and the pass writes neither metadata.json nor *)
(* the template document.                                                  *)
(***************************************************************************)
FailedFetch(e) == e.ev = "fetch" /\ e.status \in {"network_error", "http_error"}

\* the positions, in the last operation, of the fetches that failed
FailedFetches == { i \in 1..Len(trace) : FailedFetch(trace[i]) }

PassWroteLedgerOrTemplate ==
    \E i \in 1..Len(trace) : trace[i].ev \in {"write_metadata", "write_template"}

C7_FetchFailureAbortsThePass ==
    (ArchiveActed /\ FailedFetches # {}) =>
        /\ outcome # ""
        /\ ~PassWroteLedgerOrTemplate
        /\ \A i \in FailedFetches :
              WritesOf(url_to_file(trace[i].url)) \cap (i + 1)..Len(trace) = {}

(***************************************************************************)
(* C8.  Rendering a template in which some delimiter-wrapped token, in the *)
(* HTML template or in a nested CSS asset template, has no ledger entry    *)
(* fails with a lookup error and writes no output file.                    *)
(***************************************************************************)
RenderRead == RenderActed /\ metadata_file.exists
                  /\ generate_url_hash(op.url) \in DOMAIN template

C8_MissingLedgerEntryFailsTheRender ==
    (RenderRead /\ ~(TemplateTokens(generate_url_hash(op.url))
                        \subseteq DOMAIN metadata_file.content))
        => (outcome = "KeyError" /\ trace = <<>>)

(***************************************************************************)
(* C9.  A reference whose derived file extension is not a recognised asset *)
(* format, and that is not a bare fragment, is passed through unchanged:   *)
(* the replacement text is the reference string given; a data: URI is      *)
(* returned verbatim.                                                      *)
(***************************************************************************)
NotAnAsset(ref) ==
    url_to_file(normalize_url(url, ref)).suffix \notin asset_url_file_formats

C9_NonAssetReferenceIsUnchanged ==
    \A i \in 1..Len(trace) :
        (trace[i].ev = "resolved" /\ trace[i].ref.form # "frag"
            /\ NotAnAsset(trace[i].ref))
            => trace[i].ret = trace[i].ref

(***************************************************************************)
(* C10.  Round trip: for every non-stylesheet asset reference that         *)
(* archiving replaced by a placeholder, the rendered document carries      *)
(* data:<content_type>;base64,<payload> with the content type recorded at  *)
(* fetch time and a payload that decodes to the bytes originally fetched.  *)
(***************************************************************************)
NonStylesheetToken(t) ==
    /\ ~is_css_file(template_id_to_file(t))
    /\ template_id_to_file(t) \in DOMAIN fetched
    /\ ~is_css_type(fetched[template_id_to_file(t)].content_type)

C10_RoundTripOfFetchedBytes ==
    RenderSucceeded =>
        LET tpl == DocItems(template[generate_url_hash(op.url)])
            out == DocItems(output.content)
        IN  \A j \in 1..Len(tpl) :
              (tpl[j].v.form = "placeholder" /\ NonStylesheetToken(tpl[j].v.token))
                => LET r == fetched[template_id_to_file(tpl[j].v.token)] IN
                   /\ out[j].v.form = "data_base64"
                   /\ out[j].v.content_type = r.content_type
                   /\ b64decode(out[j].v.payload) = r.body

(***************************************************************************)
(* C11.  The identifier codec is reversible: for every canonical URL,      *)
(* template_id_to_file of the token built from url_to_file(url) returns    *)
(* the path url_to_file(url), also when the URL has no path suffix.        *)
(***************************************************************************)
CodecActed == op.name = "template_id_to_file"

C11_CodecIsReversible ==
    CodecActed => (outcome = "" /\ trace[1].ret = trace[1].file)

(***************************************************************************)
(* C12.  Token derivation is deterministic on the canonical URL: two       *)
(* references that are the same, or differ only in query string, fragment, *)
(* or relative versus absolute form against the same base, get the same    *)
(* canonical URL, the same token and the same asset file path.             *)
(***************************************************************************)
TokenActed == op.name = "token_for"

\* the directory a reference points into, seen from the base
DirOf(base, ref) == IF ref.form = "rel" THEN base.dir ELSE ref.dir

DifferOnlyInQueryFragmentForm(base, r1, r2) ==
    \/ r1 = r2
    \/ r1.form = "frag" /\ r2.form = "frag"
    \/ /\ r1.form \in {"abs", "rel"} /\ r2.form \in {"abs", "rel"}
       /\ DirOf(base, r1) = DirOf(base, r2)
       /\ r1.name = r2.name /\ r1.ext = r2.ext
       /\ r1.pct = r2.pct /\ r1.tail = r2.tail

C12_TokenIsDeterministic ==
    (TokenActed /\ DifferOnlyInQueryFragmentForm(op.url, trace[1].ref, trace[2].ref))
        => /\ trace[1].url = trace[2].url
           /\ trace[1].token = trace[2].token
           /\ trace[1].file = trace[2].file

\* a relative reference with a query string and the absolute form of the
\* same asset with a fragment have got one token
C12_Witness ==
    /\ TokenActed
    /\ trace[1].ref.form = "rel" /\ trace[1].ref.query # "" /\ trace[1].ref.frag = ""
    /\ trace[2].ref.form = "abs" /\ trace[2].ref.query = "" /\ trace[2].ref.frag # ""
    /\ DifferOnlyInQueryFragmentForm(op.url, trace[1].ref, trace[2].ref)
    /\ trace[1].token = trace[2].token

(***************************************************************************)
(* C13.  Every reference is normalized against the base URL of the         *)
(* document it was found in: the page for the references of the HTML, and  *)
(* the stylesheet's own URL for the url() references inside a fetched CSS  *)
(* asset.                                                                  *)
(***************************************************************************)
\* the resolver returns of the last operation that show the canonical URL:
\* a placeholder (its token holds the digest of the URL) or the URL itself
ShowsCanonical(e) ==
    e.ev = "resolved" /\ e.ret.form \in {"placeholder", "abs"}

CanonicalOf(e) ==
    IF e.ret.form = "placeholder" THEN e.ret.token[2].sha1 ELSE e.ret

C13_NormalizedAgainstOwnDocument ==
    ArchiveActed =>
        \A i \in 1..Len(trace) :
            ShowsCanonical(trace[i])
                => CanonicalOf(trace[i]) = normalize_url(trace[i].doc, trace[i].ref)

(***************************************************************************)
(* C14.  In every completed archive pass metadata.json is written exactly  *)
(* once, after every reference of the walk has been resolved, and what is  *)
(* written has an entry with content type and canonical source URL for     *)
(* every asset fetched during that pass (every fetch the resolver made).   *)
(***************************************************************************)
PassCompleted == ArchiveActed /\ outcome = ""

MetadataWrites == { i \in 1..Len(trace) : trace[i].ev = "write_metadata" }

\* the fetches of assets: those the resolver made
ResolverFetches ==
    { i \in 1..Len(trace) : trace[i].ev = "fetch" /\ trace[i].return_bytes }

C14_LedgerWrittenOnceAfterTheWalk ==
    PassCompleted =>
        /\ Cardinality(MetadataWrites) = 1
        /\ \A w \in MetadataWrites : \A i \in 1..Len(trace) :
              trace[i].ev \in {"fetch", "resolved", "write_asset"} => i < w
        /\ metadata_file.exists
        /\ \A i \in ResolverFetches :
              LET t == template_identifier(url_to_file(trace[i].url)) IN
              /\ t \in DOMAIN metadata_file.content
              /\ metadata_file.content[t].url = trace[i].url
              /\ \E j \in ResolverFetches :
                    /\ trace[j].url = trace[i].url
                    /\ metadata_file.content[t].content_type = trace[j].content_type

\* a completed pass in which the resolver fetched a stylesheet and, inside
\* it, an image
C14_Witness ==
    /\ PassCompleted
    /\ \E i, j \in ResolverFetches :
          /\ i < j
          /\ trace[i].url.ext = "css" /\ trace[j].url.ext = "png"
    /\ Cardinality(DOMAIN metadata_file.content) >= 2

(***************************************************************************)
(* C15.  Referential integrity of the assets folder: in every reachable    *)
(* state, the one left by an aborted pass included, every placeholder      *)
(* token in an asset file or in a template document (the token kept in a   *)
(* <link>'s auxiliary attribute too) names an asset file that exists.      *)
(***************************************************************************)
NamesAnAssetFile(t) ==
    ~InvalidSuffix(t) /\ template_id_to_file(t) \in DOMAIN assets

\* the tokens kept in the auxiliary attributes of a document
AuxTokens(doc) ==
    { doc[i].aux.token : i \in { j \in 1..Len(doc) : doc[j].aux.form = "token" } }

C15_EveryTokenNamesAnAssetFile ==
    /\ \A f \in DOMAIN assets :
          \A t \in TokensIn(assets[f]) : NamesAnAssetFile(t)
    /\ \A id \in DOMAIN template :
          \A t \in TokensIn(DocItems(template[id])) \cup AuxTokens(template[id]) :
              NamesAnAssetFile(t)

PassAborted == ArchiveActed /\ outcome # ""

\* an aborted pass that had written an asset file holding a placeholder
C15_Witness ==
    /\ PassAborted
    /\ \E i \in 1..Len(trace) :
          /\ trace[i].ev = "write_asset"
          /\ TokensIn(assets[trace[i].file]) # {}

(***************************************************************************)
(* C16.  The render pass is read-only on the archive: a step of            *)
(* render_url_to_flat_file, whether it succeeds or fails, leaves every     *)
(* asset file, metadata.json and every raw and template document as they   *)
(* were; only the output file may change.                                  *)
(***************************************************************************)
C16_RenderIsReadOnly ==
    [][ op'.name = "render_url_to_flat_file"
            => UNCHANGED <<assets, metadata_file, raw, template>> ]_vars

\* a render that wrote its output from an archive that holds asset files
C16_Witness ==
    /\ RenderSucceeded
    /\ output.exists
    /\ assets # EmptyMap
    /\ TokensIn(DocItems(template[generate_url_hash(op.url)])) # {}

(***************************************************************************)
(* C17.  escape_css follows CSS.escape: a character is emitted as a        *)
(* hexadecimal escape only if it is a control character, or a digit at     *)
(* index 0, or a digit at index 1 of a string that starts with '-'; a      *)
(* non-digit at index 1 after a leading '-' is emitted by the ordinary     *)
(* rules (kept, or backslash-escaped).                                     *)
(***************************************************************************)
EscapeActed == op.name = "escape_css"

\* what the ordinary rules emit for a character that is neither NUL nor a
\* control character
Ordinary(c) ==
    IF IsKept(c) THEN [k |-> "raw", code |-> c] ELSE [k |-> "bs", code |-> c]

C17_HexEscapeOnlyWhereCssEscapeHasIt ==
    EscapeActed =>
        LET css == trace[1].css
            ret == trace[1].ret
        IN  \A i \in 1..Len(css) :
              /\ ret[i].k = "hex" =>
                    \/ IsControl(css[i])
                    \/ (IsDigit(css[i]) /\ i = 1)
                    \/ (IsDigit(css[i]) /\ i = 2 /\ css[1] = 45)
              /\ (i = 2 /\ css[1] = 45 /\ css[i] # 0
                        /\ ~IsDigit(css[i]) /\ ~IsControl(css[i]))
                    => ret[i] = Ordinary(css[i])

====
